---- MODULE Spec2Model ----
(***************************************************************************)
(* TwitchRSS (src/TwitchRSS/twitchrss.py): the request pipeline of the     *)
(* podcast feed service.  A request is routed by vod / vodonly, runs       *)
(* get_inner (fetch_userid, fetch_vods, construct_rss) on a worker thread  *)
(* and shares with the other threads the OAuth credential                  *)
(* (TWITCH_OAUTH_TOKEN, TWITCH_OAUTH_EXPIRE_EPOCH) and the three TTL       *)
(* caches made by the @cached decorators.                                  *)
(*                                                                         *)
(* Time is an integer count of half-seconds, so that round(time.time())    *)
(* is a real conversion (Python rounds a tie to the even integer).         *)
(* Strings the code looks into (the channel name, the thumbnail template)  *)
(* are sequences of one-character strings or of tokens.                    *)
(***************************************************************************)
EXTENDS Integers, Sequences, FiniteSets, TLC

VARIABLES
    now,                        \* time.time(), in half-seconds
    TWITCH_OAUTH_TOKEN,         \* line 41
    TWITCH_OAUTH_EXPIRE_EPOCH,  \* line 42, in seconds
    userid_cache,               \* the TTLCache of fetch_userid (line 131)
    vods_cache,                 \* the TTLCache of fetch_vods (line 136)
    audio_cache,                \* the TTLCache of get_audiostream_url (line 81)
    th,                         \* per worker thread: the request it serves
    env,                        \* the run's environment: the server's mode, the clock's
                                \* advances, the names asked for, the upstream's answers,
                                \* the number of requests
    nreq,                       \* requests accepted so far
    ticked,                     \* the clock advanced since the last request arrived
    last_userid,                \* history: per channel, the last fetch_userid that returned
    last_vods,                  \* history: per channel id, the last fetch_vods that returned
    last_audio,                 \* history: per page URL, the last get_audiostream_url that returned
    exchanged,                  \* history: the last token exchange that succeeded
    refresh_failed              \* history: the last authorize that tried an exchange gave up

vars == <<now, TWITCH_OAUTH_TOKEN, TWITCH_OAUTH_EXPIRE_EPOCH, userid_cache,
          vods_cache, audio_cache, th, env, nreq, ticked,
          last_userid, last_vods, last_audio, exchanged, refresh_failed>>

-----------------------------------------------------------------------------
(* Bounds of the model *)

MaxReq == 2          \* requests accepted in one run

Threads == {"w1", "w2"}

-----------------------------------------------------------------------------
(* Program constants *)

VODCACHE_LIFETIME == 10 * 60
USERIDCACHE_LIFETIME == 24 * 60 * 60
MAX_RETRIES == 3
CHANNEL_MIN == 2
CHANNEL_MAX == 25

-----------------------------------------------------------------------------
(* Time *)

\* s seconds, in the clock's unit
Sec(s) == 2 * s

\* round(time.time()) at clock value t: Python 3 rounds a tie to the even integer
Round(t) ==
    IF t % 2 = 0 THEN t \div 2
    ELSE LET n == (t - 1) \div 2 IN IF n % 2 = 0 THEN n ELSE n + 1

\* the expires_in values the token endpoint answers with
ExpiresIn == {3600}

\* the clock when the process starts: on a full second, or half a second later
StartTimes == {Sec(1001), Sec(1001) + 1}

\* the time between two requests: a second less and a second more than a
\* lifetime, and the lifetime itself
Around(life) == {Sec(life - 1), Sec(life), Sec(life + 1)}

-----------------------------------------------------------------------------
(* Channel names and CHANNEL_FILTER *)

Rep(c, n) == [i \in 1..n |-> c]

Lower == {"a","b","c","d","e","f","g","h","i","j","k","l","m",
          "n","o","p","q","r","s","t","u","v","w","x","y","z"}
Upper == {"A","B","C","D","E","F","G","H","I","J","K","L","M",
          "N","O","P","Q","R","S","T","U","V","W","X","Y","Z"}
Digit == {"0","1","2","3","4","5","6","7","8","9"}

\* the class [a-zA-Z0-9_]
WordChar == Lower \cup Upper \cup Digit \cup {"_"}

\* the pattern as the interface states it: the whole name is 2..25 word characters
MatchesPattern(s) ==
    /\ Len(s) >= CHANNEL_MIN
    /\ Len(s) <= CHANNEL_MAX
    /\ \A i \in 1..Len(s) : s[i] \in WordChar

\* CHANNEL_FILTER.match(channel): in Python's re, $ matches at the end of the
\* string and also just before a newline that ends the string
CHANNEL_FILTER_match(s) ==
    \E n \in CHANNEL_MIN..CHANNEL_MAX :
        /\ n <= Len(s)
        /\ \A i \in 1..n : s[i] \in WordChar
        /\ \/ Len(s) = n
           \/ Len(s) = n + 1 /\ s[n + 1] = "\n"

\* the channel names the requests carry (the route's string converter never
\* yields an empty name or one with a slash)
ChannelNames ==
    { <<"a", "b">>,
      Rep("Z", CHANNEL_MAX + 1),
      Rep("a", CHANNEL_MIN - 1),
      <<"a", "-", "9">>,
      <<"a", "\n", "b">>,
      <<"a", "b", "\n">> }

-----------------------------------------------------------------------------
(* What the upstream answers.  A body is what urlopen(...).read() yields:    *)
(* no bytes, bytes that are not JSON, or a JSON object with its data list.  *)

NoBody == [kind |-> "none", data |-> <<>>]
EmptyBody == [kind |-> "empty", data |-> <<>>]
GarbageBody == [kind |-> "garbage", data |-> <<>>]
Json(records) == [kind |-> "json", data |-> records]

\* a failed attempt: urlopen raises (timeout, transport error, HTTP error status)
Failure == [kind |-> "error", data |-> <<>>]

User1 == [id |-> "u1", display_name |-> "Ab", profile_image_url |-> "icon1"]
UserNoName == [id |-> "u2", display_name |-> "", profile_image_url |-> "icon2"]

\* helix/users?login=...
IdentityBodies ==
    { EmptyBody, GarbageBody, Json(<<>>), Json(<<User1>>), Json(<<UserNoName>>) }

Thumb1 == <<"https://x/t_", "%{width}", "x", "%{height}", ".jpg">>

Vod1 == [id |-> "v1", title |-> "Test", url |-> "https://x/v1",
         thumbnail_url |-> Thumb1, description |-> "d",
         created_at |-> "2020-01-01T00:00:00Z"]
Vod2 == [id |-> "v2", title |-> "Live", url |-> "https://x/v2",
         thumbnail_url |-> Thumb1, description |-> "",
         created_at |-> "2020-01-02T00:00:00Z", status |-> "recording"]
\* records that lack a field: the first the loop reads, and the last
VodNoUrl == [id |-> "v3", title |-> "NoUrl",
             thumbnail_url |-> Thumb1, description |-> "d",
             created_at |-> "2020-01-03T00:00:00Z"]
VodNoId == [title |-> "NoId", url |-> "https://x/v2",
            thumbnail_url |-> Thumb1, description |-> "d",
            created_at |-> "2020-01-04T00:00:00Z"]

\* what helix/users answers for a login: a name outside the pattern is no
\* login, and the request fails (if the URL can be sent at all)
IdentityAnswers(channel) == IF MatchesPattern(channel) THEN env.identities ELSE {}

\* helix/videos?user_id=...
ListingBodies ==
    { EmptyBody, GarbageBody, Json(<<>>), Json(<<Vod1>>), Json(<<Vod1, Vod2>>),
      Json(<<Vod1, VodNoUrl>>), Json(<<VodNoId, Vod1>>) }

\* the token endpoint's answer, read by json.loads
TokenObjects ==
    { [access_token |-> "tokA", expires_in |-> e] : e \in ExpiresIn }
      \cup { [access_token |-> "tokB"] }
      \cup { [expires_in |-> e] : e \in ExpiresIn }

TokenResponses ==
    { [kind |-> "error", obj |-> <<>>], [kind |-> "garbage", obj |-> <<>>] }
      \cup { [kind |-> "json", obj |-> o] : o \in TokenObjects }

\* what streamlink prints for a page URL when it exits with 0: the stream URL
\* it resolved, which is not the same from one run to the next
StreamUrls == {"audio1", "audio2"}

\* what a streamlink process leaves: its exit code and its output
StreamlinkRuns ==
    {[returncode |-> 1, out |-> "error: no streams"]} \cup
    {[returncode |-> 0, out |-> u] : u \in StreamUrls}

\* StreamlinkFailed with the exit code ignored
StreamlinkFailed_Never(p) == FALSE

\* lines 87-88: a non-zero exit raises
StreamlinkFailed(p) == p.returncode # 0

-----------------------------------------------------------------------------
(* The TTL caches of the @cached decorators *)

EmptyCache == <<>>

\* Entry with one lifetime for every cache
Entry_OneLifetime(v, t, ttl) == [val |-> v, expires |-> t + Sec(USERIDCACHE_LIFETIME)]

Entry(v, t, ttl) == [val |-> v, expires |-> t + Sec(ttl)]

\* cache[k] at time t: the outcomes of the lookup (TRUE: the entry is served).
\* An entry is served before its expiry time and not after it; at the expiry
\* time itself the cachetools releases differ, so both may happen.
Served(cache, k, t) ==
    IF k \notin DOMAIN cache THEN {FALSE}
    ELSE IF t < cache[k].expires THEN {TRUE}
    ELSE IF t = cache[k].expires THEN {TRUE, FALSE}
    ELSE {FALSE}

\* cache[k] = v at time t: expired entries are dropped, the entry is (re)written
Store(cache, k, v, t, ttl) ==
    LET keep == {j \in DOMAIN cache : j # k /\ ~(cache[j].expires < t)}
    IN  [j \in keep \cup {k} |-> IF j = k THEN Entry(v, t, ttl) ELSE cache[j]]

-----------------------------------------------------------------------------
(* get_inner's reading of the two lookups (lines 111-120) *)

UserFields == {"id", "display_name", "profile_image_url"}

\* lines 111-114 with extract_userid: 200 when an identity comes out
IdentityStatus(user_json) ==
    IF user_json.kind = "empty" THEN 404              \* not user_json
    ELSE IF user_json.kind # "json" THEN 500          \* json.loads raises
    ELSE IF Len(user_json.data) = 0 THEN 500          \* ['data'][0]: IndexError
    ELSE LET user_info == user_json.data[1] IN
         IF ~(UserFields \subseteq DOMAIN user_info) THEN 500   \* KeyError
         ELSE IF user_info.display_name # "" /\ user_info.id # "" THEN 200
         ELSE 404

\* lines 117-120
ListingStatus(channel_json) ==
    IF channel_json.kind = "empty" THEN 404           \* not channel_json
    ELSE IF channel_json.kind # "json" THEN 500       \* json.loads raises
    ELSE 200

-----------------------------------------------------------------------------
(* A worker thread and the request it serves *)

IdleThread ==
    [ pc |-> "idle",
      channel |-> <<>>,          \* vod(channel)
      add_live |-> FALSE,
      fn |-> "none",             \* the cached function being computed
      retries |-> 0,
      r |-> <<>>,                \* authorize: the decoded token response
      user_json |-> NoBody,
      channel_json |-> NoBody,
      i |-> 0,                   \* construct_rss: the record the loop is at
      entries |-> <<>>,          \* construct_rss: the feed's entries so far
      status |-> 0,              \* the response's status
      ended_in |-> "",           \* the function that returned or raised it
      body |-> <<>>,             \* the response's feed, if it has one
      gzip |-> FALSE,            \* the response carries Content-Encoding: gzip
      bearer |-> "" ]            \* fetch_json: the token in the Authorization header

\* the request ends with this status: abort(code), an unhandled exception (500)
\* or the returned feed (200)
Done(rec, code, where) ==
    [rec EXCEPT !.pc = "done", !.status = code, !.ended_in = where]

\* extract_userid's result for the identity the request holds
ChannelId(rec) == rec.user_json.data[1].id
DisplayName(rec) == rec.user_json.data[1].display_name
Icon(rec) == rec.user_json.data[1].profile_image_url

\* AfterUserid without the tests of lines 111-114 and 170
AfterUserid_NoCheck(rec) == [rec EXCEPT !.pc = "fetch_vods"]

\* get_inner after fetch_userid returned (lines 111-114)
AfterUserid(rec) ==
    LET code == IdentityStatus(rec.user_json)
    IN  IF code = 200 THEN [rec EXCEPT !.pc = "fetch_vods"]
        ELSE Done(rec, code, "get_inner")

\* AfterVods with a second lookup when the listing cannot be used
AfterVods_LooksUpAgain(rec) ==
    LET code == ListingStatus(rec.channel_json)
    IN  IF code # 200 THEN [rec EXCEPT !.pc = "fetch_vods"]
        ELSE [rec EXCEPT !.i = 1, !.entries = <<>>,
                  !.pc = IF Len(rec.channel_json.data) = 0
                         THEN "respond" ELSE "construct_rss"]

\* get_inner after fetch_vods returned (lines 117-121), into construct_rss
\* (lines 178-191): the loop is entered only "if vods"
AfterVods(rec) ==
    LET code == ListingStatus(rec.channel_json)
    IN  IF code # 200 THEN Done(rec, code, "get_inner")
        ELSE [rec EXCEPT !.i = 1, !.entries = <<>>,
                  !.pc = IF Len(rec.channel_json.data) = 0
                         THEN "respond" ELSE "construct_rss"]

\* AfterFailure with the loop test off by one: a fourth attempt is made
AfterFailure_FourthAttempt(rec, where) ==
    IF rec.retries + 1 <= MAX_RETRIES
    THEN [rec EXCEPT !.retries = rec.retries + 1]
    ELSE Done([rec EXCEPT !.retries = rec.retries + 1], 503, where)

\* AfterFailure without the abort(503) after the loop: the function returns
\* and its caller goes on
AfterFailure_NoAbort(rec, where) ==
    IF rec.retries + 1 < MAX_RETRIES
    THEN [rec EXCEPT !.retries = rec.retries + 1]
    ELSE [rec EXCEPT !.retries = 0, !.pc = "headers"]

\* the while loops of authorize and fetch_json after a failed attempt
\* (lines 75-78, 159-162)
AfterFailure(rec, where) ==
    IF rec.retries + 1 < MAX_RETRIES
    THEN [rec EXCEPT !.retries = rec.retries + 1]
    ELSE Done([rec EXCEPT !.retries = rec.retries + 1], 503, where)

\* str.replace on a string held as tokens
Replace(str, old, new) == [j \in DOMAIN str |-> IF str[j] = old THEN new ELSE str[j]]

VodFieldsAfterUrl == {"thumbnail_url", "description", "created_at", "id"}

\* FeedEntry with the thumbnail's height left as the template has it
FeedEntry_WidthOnly(vod, audio) ==
    [ title |-> vod.title,
      enclosure |-> [url |-> audio, type |-> "audio/mpeg"],
      link |-> vod.url,
      description |->
          [ href |-> vod.url,
            img |-> Replace(vod.thumbnail_url, "%{width}", "512"),
            text |-> vod.description ],
      pubDate |-> vod.created_at,
      guid |-> vod.id ]

\* lines 204-218 for one record, once its audio URL is there
FeedEntry(vod, audio) ==
    [ title |-> vod.title,
      enclosure |-> [url |-> audio, type |-> "audio/mpeg"],
      link |-> vod.url,
      description |->
          [ href |-> vod.url,
            img |-> Replace(Replace(vod.thumbnail_url, "%{width}", "512"),
                            "%{height}", "288"),
            text |-> vod.description ],
      pubDate |-> vod.created_at,
      guid |-> vod.id ]

\* AfterAudio with the except clause inside the loop: a record that lacks a
\* field is left out and the loop goes on
AfterAudio_SkipsRecord(rec, audio) ==
    LET vod == rec.channel_json.data[rec.i]
    IN  [rec EXCEPT !.entries = IF VodFieldsAfterUrl \subseteq DOMAIN vod
                                 THEN <<FeedEntry(vod, audio)>> \o rec.entries
                                 ELSE rec.entries,
                    !.i = rec.i + 1,
                    !.pc = IF rec.i + 1 > Len(rec.channel_json.data)
                           THEN "respond" ELSE "construct_rss"]

\* AfterAudio with the lines 194-196 that the source has as comments: with
\* add_live off, a record that is being recorded gets no entry
AfterAudio_SkipsLive(rec, audio) ==
    LET vod == rec.channel_json.data[rec.i]
        live == "status" \in DOMAIN vod /\ vod.status = "recording"
    IN  IF ~(VodFieldsAfterUrl \subseteq DOMAIN vod)
        THEN Done(rec, 404, "construct_rss")
        ELSE [rec EXCEPT !.entries = IF live /\ ~rec.add_live THEN rec.entries
                                      ELSE <<FeedEntry(vod, audio)>> \o rec.entries,
                         !.i = rec.i + 1,
                         !.pc = IF rec.i + 1 > Len(rec.channel_json.data)
                                THEN "respond" ELSE "construct_rss"]

\* the rest of the loop body after get_audiostream_url returned; feedgen's
\* add_entry puts the new entry first
AfterAudio(rec, audio) ==
    LET vod == rec.channel_json.data[rec.i]
    IN  IF ~(VodFieldsAfterUrl \subseteq DOMAIN vod)
        THEN Done(rec, 404, "construct_rss")                       \* KeyError
        ELSE [rec EXCEPT !.entries = <<FeedEntry(vod, audio)>> \o rec.entries,
                         !.i = rec.i + 1,
                         !.pc = IF rec.i + 1 > Len(rec.channel_json.data)
                                THEN "respond" ELSE "construct_rss"]

\* the feed a finished request returned
Feed(rec) == [title |-> DisplayName(rec), image |-> Icon(rec), entries |-> rec.entries]

\* history of a cached function: the value it last returned for key k
Returned(last, k, v, t, stored) ==
    [j \in DOMAIN last \cup {k} |->
        IF j = k THEN [val |-> v, at |-> t, stored |-> stored] ELSE last[j]]

-----------------------------------------------------------------------------
(* The credential *)

\* CredentialValid without the test of line 57
CredentialValid_Always(expire, t) == TRUE

\* line 57: the credential is taken as valid
CredentialValid(expire, t) == expire >= Round(t)

-----------------------------------------------------------------------------
\* the process after start-up (lines 34-51), in environment e
InitIn(e) ==
    /\ env = e
    /\ now \in e.starts
    /\ TWITCH_OAUTH_TOKEN = ""
    /\ TWITCH_OAUTH_EXPIRE_EPOCH = 0
    /\ userid_cache = EmptyCache
    /\ vods_cache = EmptyCache
    /\ audio_cache = EmptyCache
    /\ th = [t \in Threads |-> IdleThread]
    /\ nreq = 0
    /\ ticked = TRUE
    /\ last_userid = <<>>
    /\ last_vods = <<>>
    /\ last_audio = <<>>
    /\ exchanged = <<>>
    /\ refresh_failed = FALSE

Shared == <<TWITCH_OAUTH_TOKEN, TWITCH_OAUTH_EXPIRE_EPOCH, userid_cache,
            vods_cache, audio_cache, last_userid, last_vods, last_audio, exchanged>>

\* time passes between two requests
Tick(d) ==
    /\ ~ticked
    /\ nreq < env.requests
    /\ \A t \in Threads : th[t].pc = "idle"
    /\ now' = now + d
    /\ ticked' = TRUE
    /\ UNCHANGED <<Shared, th, env, nreq, refresh_failed>>

\* vod / vodonly (lines 93-106): a request arrives at a free worker
Route(t, channel, add_live) ==
    /\ th[t].pc = "idle"
    /\ nreq < env.requests
    /\ env.threaded \/ t = "w1"
    /\ nreq' = nreq + 1
    /\ ticked' = FALSE
    /\ th' = [th EXCEPT ![t] =
                LET rec == [IdleThread EXCEPT !.channel = channel, !.add_live = add_live]
                IN  IF CHANNEL_FILTER_match(channel)
                    THEN [rec EXCEPT !.pc = "fetch_userid"]
                    ELSE Done(rec, 404, "vod")]
    /\ UNCHANGED <<Shared, now, env, refresh_failed>>

\* fetch_userid(channel) (line 110): the @cached wrapper's lookup
FetchUserid(t) ==
    /\ th[t].pc = "fetch_userid"
    /\ \E hit \in Served(userid_cache, th[t].channel, now) :
         LET rec == th[t] IN
         IF hit
         THEN LET v == userid_cache[th[t].channel].val IN
              /\ th' = [th EXCEPT ![t] = AfterUserid([rec EXCEPT !.user_json = v])]
              /\ last_userid' = Returned(last_userid, th[t].channel, v, now,
                                         last_userid[th[t].channel].stored)
         ELSE /\ th' = [th EXCEPT ![t] = [rec EXCEPT !.pc = "authorize", !.fn = "userid"]]
              /\ UNCHANGED last_userid
    /\ UNCHANGED <<now, TWITCH_OAUTH_TOKEN, TWITCH_OAUTH_EXPIRE_EPOCH, userid_cache,
                   vods_cache, audio_cache, env, nreq, ticked, last_vods, last_audio, exchanged, refresh_failed>>

\* fetch_vods(channel_id) (line 116): the @cached wrapper's lookup
FetchVods(t) ==
    /\ th[t].pc = "fetch_vods"
    /\ \E hit \in Served(vods_cache, ChannelId(th[t]), now) :
         LET rec == th[t] IN
         IF hit
         THEN LET v == vods_cache[ChannelId(th[t])].val IN
              /\ th' = [th EXCEPT ![t] = AfterVods([rec EXCEPT !.channel_json = v])]
              /\ last_vods' = Returned(last_vods, ChannelId(th[t]), v, now,
                                       last_vods[ChannelId(th[t])].stored)
         ELSE /\ th' = [th EXCEPT ![t] = [rec EXCEPT !.pc = "authorize", !.fn = "vods"]]
              /\ UNCHANGED last_vods
    /\ UNCHANGED <<now, TWITCH_OAUTH_TOKEN, TWITCH_OAUTH_EXPIRE_EPOCH, userid_cache,
                   vods_cache, audio_cache, env, nreq, ticked, last_userid, last_audio, exchanged, refresh_failed>>

\* authorize, line 57: fetch_json's first statement
Authorize(t) ==
    /\ th[t].pc = "authorize"
    /\ th' = [th EXCEPT ![t] =
                [@ EXCEPT !.retries = 0,
                          !.pc = IF CredentialValid(TWITCH_OAUTH_EXPIRE_EPOCH, now)
                                 THEN "headers" ELSE "token_urlopen"]]
    /\ UNCHANGED <<Shared, now, env, nreq, ticked, refresh_failed>>

\* line 71 can run: the body is JSON with an access_token
HasToken(resp) == resp.kind = "json" /\ "access_token" \in DOMAIN resp.obj
\* line 72 can run too
HasExpiry(resp) == resp.kind = "json" /\ "expires_in" \in DOMAIN resp.obj

\* authorize, lines 69-71 and 75-78: one attempt of the token exchange, up to
\* the assignment of TWITCH_OAUTH_TOKEN
TokenAttempt(t, resp) ==
    /\ th[t].pc = "token_urlopen"
    /\ resp \in env.tokens
    /\ LET rec == IF HasToken(resp) /\ HasExpiry(resp)
                  THEN [th[t] EXCEPT !.pc = "token_expire", !.r = resp.obj]
                  ELSE AfterFailure(th[t], "authorize") IN
       /\ TWITCH_OAUTH_TOKEN' = IF HasToken(resp) THEN resp.obj.access_token
                                ELSE TWITCH_OAUTH_TOKEN
       /\ refresh_failed' = \/ refresh_failed
                             \/ /\ ~(HasToken(resp) /\ HasExpiry(resp))
                                /\ th[t].retries + 1 >= MAX_RETRIES
       /\ th' = [th EXCEPT ![t] = rec]
    /\ UNCHANGED <<now, TWITCH_OAUTH_EXPIRE_EPOCH, userid_cache, vods_cache, audio_cache,
                   env, nreq, ticked, last_userid, last_vods, last_audio, exchanged>>

\* authorize, lines 72-74: the expiry is stored and authorize returns
TokenExpire(t) ==
    /\ th[t].pc = "token_expire"
    /\ TWITCH_OAUTH_EXPIRE_EPOCH' = th[t].r.expires_in + Round(now)
    /\ exchanged' = <<[at |-> now, r |-> th[t].r]>>
    /\ refresh_failed' = FALSE
    /\ th' = [th EXCEPT ![t] = [@ EXCEPT !.pc = "headers", !.retries = 0, !.r = <<>>]]
    /\ UNCHANGED <<now, TWITCH_OAUTH_TOKEN, userid_cache, vods_cache, audio_cache,
                   env, nreq, ticked, last_userid, last_vods, last_audio>>

\* fetch_json, lines 143-150: the request is built with the token that is
\* stored now
Headers(t) ==
    /\ th[t].pc = "headers"
    /\ th' = [th EXCEPT ![t] = [@ EXCEPT !.bearer = TWITCH_OAUTH_TOKEN,
                                         !.retries = 0,
                                         !.pc = "data_urlopen"]]
    /\ UNCHANGED <<Shared, now, env, nreq, ticked, refresh_failed>>

\* fetch_json, lines 151-162, one attempt; on success the @cached wrapper
\* stores the body and get_inner goes on
DataAttempt(t, resp) ==
    /\ th[t].pc = "data_urlopen"
    /\ resp \in {Failure} \cup (IF th[t].fn = "userid"
                                THEN IdentityAnswers(th[t].channel) ELSE env.listings)
    /\ LET rec == th[t] IN
       IF resp = Failure
       THEN /\ th' = [th EXCEPT ![t] = AfterFailure(rec, "fetch_json")]
            /\ UNCHANGED <<userid_cache, vods_cache, last_userid, last_vods>>
       ELSE IF th[t].fn = "userid"
       THEN /\ userid_cache' = Store(userid_cache, rec.channel, resp, now, USERIDCACHE_LIFETIME)
            /\ last_userid' = Returned(last_userid, rec.channel, resp, now, now)
            /\ th' = [th EXCEPT ![t] = AfterUserid([rec EXCEPT !.user_json = resp])]
            /\ UNCHANGED <<vods_cache, last_vods>>
       ELSE /\ vods_cache' = Store(vods_cache, ChannelId(rec), resp, now, VODCACHE_LIFETIME)
            /\ last_vods' = Returned(last_vods, ChannelId(rec), resp, now, now)
            /\ th' = [th EXCEPT ![t] = AfterVods([rec EXCEPT !.channel_json = resp])]
            /\ UNCHANGED <<userid_cache, last_userid>>
    /\ UNCHANGED <<now, TWITCH_OAUTH_TOKEN, TWITCH_OAUTH_EXPIRE_EPOCH, audio_cache,
                   env, nreq, ticked, last_audio, exchanged, refresh_failed>>

\* construct_rss, lines 191-204: the loop body up to get_audiostream_url(link)
\* and the @cached wrapper's lookup
GetAudio(t) ==
    /\ th[t].pc = "construct_rss"
    /\ LET vod == th[t].channel_json.data[th[t].i] IN
       IF ~({"url", "title"} \subseteq DOMAIN vod)
       THEN /\ th' = [th EXCEPT ![t] = Done(th[t], 404, "construct_rss")]   \* KeyError
            /\ UNCHANGED last_audio
       ELSE \E hit \in Served(audio_cache, vod.url, now) :
              LET rec == th[t] IN
              IF hit
              THEN /\ th' = [th EXCEPT ![t] = AfterAudio(rec, audio_cache[vod.url].val)]
                   /\ last_audio' = Returned(last_audio, vod.url, audio_cache[vod.url].val,
                                             now, last_audio[vod.url].stored)
              ELSE /\ th' = [th EXCEPT ![t] = [rec EXCEPT !.pc = "streamlink"]]
                   /\ UNCHANGED last_audio
    /\ UNCHANGED <<now, TWITCH_OAUTH_TOKEN, TWITCH_OAUTH_EXPIRE_EPOCH, userid_cache,
                   vods_cache, audio_cache, env, nreq, ticked, last_userid, last_vods, exchanged, refresh_failed>>

\* get_audiostream_url, lines 84-90: streamlink runs; the @cached wrapper
\* stores what the function returns
Streamlink(t, p) ==
    /\ th[t].pc = "streamlink"
    /\ LET rec == th[t]
           url == th[t].channel_json.data[th[t].i].url IN
       IF StreamlinkFailed(p)
       THEN /\ th' = [th EXCEPT ![t] = Done(rec, 500, "get_audiostream_url")]   \* Exception
            /\ UNCHANGED <<audio_cache, last_audio>>
       ELSE /\ audio_cache' = Store(audio_cache, url, p.out, now, USERIDCACHE_LIFETIME)
            /\ last_audio' = Returned(last_audio, url, p.out, now, now)
            /\ th' = [th EXCEPT ![t] = AfterAudio(rec, p.out)]
    /\ UNCHANGED <<now, TWITCH_OAUTH_TOKEN, TWITCH_OAUTH_EXPIRE_EPOCH, userid_cache,
                   vods_cache, env, nreq, ticked, last_userid, last_vods, exchanged, refresh_failed>>

\* get_inner, lines 122-128: the feed is returned, compressed when the
\* request's Accept-Encoding has gzip
Respond(t, accept_gzip) ==
    /\ th[t].pc = "respond"
    /\ th' = [th EXCEPT ![t] =
                Done([th[t] EXCEPT !.gzip = accept_gzip, !.body = <<Feed(th[t])>>],
                     200, "get_inner")]
    /\ UNCHANGED <<Shared, now, env, nreq, ticked, refresh_failed>>

\* the response is sent and the worker is free
Release(t) ==
    /\ th[t].pc = "done"
    /\ th' = [th EXCEPT ![t] = IdleThread]
    /\ UNCHANGED <<Shared, now, env, nreq, ticked, refresh_failed>>

Next ==
    \/ \E d \in env.steps : Tick(d)
    \/ \E t \in Threads, channel \in env.names, add_live \in BOOLEAN :
          Route(t, channel, add_live)
    \/ \E t \in Threads : FetchUserid(t)
    \/ \E t \in Threads : FetchVods(t)
    \/ \E t \in Threads : Authorize(t)
    \/ \E t \in Threads, resp \in env.tokens : TokenAttempt(t, resp)
    \/ \E t \in Threads : TokenExpire(t)
    \/ \E t \in Threads : Headers(t)
    \/ \E t \in Threads, resp \in {Failure} \cup IdentityBodies \cup ListingBodies :
          DataAttempt(t, resp)
    \/ \E t \in Threads : GetAudio(t)
    \/ \E t \in Threads, p \in StreamlinkRuns : Streamlink(t, p)
    \/ \E t \in Threads, accept_gzip \in BOOLEAN : Respond(t, accept_gzip)
    \/ \E t \in Threads : Release(t)

\* A server that takes one request at a time, asked for every kind of name
EnvSeq ==
    [ threaded |-> FALSE,
      starts |-> StartTimes,
      steps |-> UNION {Around(e) : e \in ExpiresIn},
      names |-> ChannelNames,
      tokens |-> TokenResponses,
      identities |-> IdentityBodies,
      listings |-> ListingBodies,
      requests |-> MaxReq ]

Spec == InitIn(EnvSeq) /\ [][Next]_vars

\* The same server asked for one channel again and again, at times around the
\* two cache lifetimes
EnvCache ==
    [ threaded |-> FALSE,
      starts |-> {Sec(1001)},
      steps |-> Around(VODCACHE_LIFETIME) \cup Around(USERIDCACHE_LIFETIME),
      names |-> {<<"a", "b">>},
      tokens |-> {[kind |-> "json", obj |-> [access_token |-> "tokA", expires_in |-> e]] : e \in ExpiresIn},
      identities |-> {Json(<<User1>>)},
      listings |-> {Json(<<Vod1>>), Json(<<Vod1, Vod2>>)},
      requests |-> MaxReq + 1 ]

SpecCache == InitIn(EnvCache) /\ [][Next]_vars

\* the steps of the request that thread t serves: each call it makes returns
Serve(t) ==
    \/ FetchUserid(t)
    \/ FetchVods(t)
    \/ Authorize(t)
    \/ \E resp \in env.tokens : TokenAttempt(t, resp)
    \/ TokenExpire(t)
    \/ Headers(t)
    \/ \E resp \in {Failure} \cup IdentityBodies \cup ListingBodies : DataAttempt(t, resp)
    \/ GetAudio(t)
    \/ \E p \in StreamlinkRuns : Streamlink(t, p)
    \/ \E accept_gzip \in BOOLEAN : Respond(t, accept_gzip)

\* The sequential server asked for one channel, with every answer the
\* upstream has
EnvLive ==
    [ threaded |-> FALSE,
      starts |-> {Sec(1001)},
      steps |-> {Sec(e + 1) : e \in ExpiresIn},
      names |-> {<<"a", "b">>},
      tokens |-> TokenResponses,
      identities |-> IdentityBodies,
      listings |-> ListingBodies,
      requests |-> MaxReq ]

\* That server with every started request running on: urlopen returns or
\* times out (timeout=3), streamlink exits
SpecLive == InitIn(EnvLive) /\ [][Next]_vars /\ \A t \in Threads : WF_vars(Serve(t))

\* A server with two worker threads: requests for one channel arrive while
\* others are in progress, around the time the token expires
EnvThreads ==
    [ threaded |-> TRUE,
      starts |-> {Sec(1001)},
      steps |-> {Sec(e + 1) : e \in ExpiresIn},
      names |-> {<<"a", "b">>},
      tokens |-> {[kind |-> "error", obj |-> <<>>]} \cup
                 {[kind |-> "json", obj |-> [access_token |-> k, expires_in |-> e]] :
                     k \in {"tokA", "tokB"}, e \in ExpiresIn},
      identities |-> {Json(<<User1>>)},
      listings |-> {Json(<<Vod1>>)},
      requests |-> MaxReq ]

SpecThreads == InitIn(EnvThreads) /\ [][Next]_vars

-----------------------------------------------------------------------------
(* The claims *)

\* the requests in progress or just answered
Busy == {t \in Threads : th[t].pc # "idle"}

\* C1: a request whose channel name does not match ^[A-Za-z0-9_]{2,25}$ ends
\* in 404 raised by the route itself: it never gets to a cache lookup, a token
\* exchange, a data fetch or the resolver.
C1_InvalidNameIsNotFoundAtTheRoute ==
    \A t \in Busy :
        ~MatchesPattern(th[t].channel) =>
            th[t].pc = "done" /\ th[t].status = 404 /\ th[t].ended_in = "vod"

\* the step of thread t out of one attempt of a fetch
Attempted(t) ==
    /\ th[t].pc \in {"token_urlopen", "data_urlopen"}
    /\ th'[t] # th[t]

\* the attempt of t in this step succeeded with the result the fetch returns
AttemptSucceeded(t) ==
    /\ th'[t].retries = th[t].retries
    /\ th'[t].pc # th[t].pc
    /\ th'[t].status # 503
    /\ IF th[t].pc = "token_urlopen"
       THEN th'[t].pc = "token_expire" /\ TWITCH_OAUTH_TOKEN' = th'[t].r.access_token
       ELSE IF th[t].fn = "userid"
       THEN th'[t].user_json = userid_cache'[th[t].channel].val
       ELSE th'[t].channel_json = vods_cache'[ChannelId(th[t])].val

\* C3: a fetch (the token exchange, the data fetch) makes at most 3 attempts:
\* an attempt is made only after fewer than 3 failures; a success ends the
\* fetch with that attempt's result, also after two failures; a failure is
\* followed by another attempt while fewer than 3 were made, and the third
\* failure ends the request with 503.
C3_AtMostThreeAttempts ==
    [][\A t \in Threads :
          Attempted(t) =>
             /\ th[t].retries < MAX_RETRIES
             /\ \/ AttemptSucceeded(t)
                \/ /\ th'[t].pc = th[t].pc
                   /\ th'[t].retries = th[t].retries + 1
                   /\ th'[t].retries < MAX_RETRIES
                \/ /\ th[t].retries = MAX_RETRIES - 1
                   /\ th'[t].retries = MAX_RETRIES
                   /\ th'[t].pc = "done"
                   /\ th'[t].status = 503]_vars

\* C3's case: the identity fetch failed twice and succeeded at the third attempt
C3_ThirdAttemptSucceeded ==
    \E t \in Threads :
        /\ th[t].pc = "fetch_vods"
        /\ th[t].retries = MAX_RETRIES - 1
        /\ th[t].user_json = Json(<<User1>>)

\* the step of thread t through line 57 of authorize
Ensured(t) == th[t].pc = "authorize" /\ th'[t].pc # "authorize"

\* C4: authorize issues a token exchange only when the credential is unset or
\* its expiry has passed, and a token obtained at time t with expires_in = e
\* (3600) causes no exchange at t + e - 1 and causes one at t + e + 1.
C4_ExchangeOnlyWhenExpired ==
    [][\A t \in Threads :
          Ensured(t) =>
             IF exchanged = <<>> THEN th'[t].pc = "token_urlopen"
             ELSE LET at == exchanged[1].at
                      e == exchanged[1].r.expires_in IN
                  /\ th'[t].pc = "token_urlopen" => now > at + Sec(e)
                  /\ now = at + Sec(e - 1) => th'[t].pc = "headers"
                  /\ now = at + Sec(e + 1) => th'[t].pc = "token_urlopen"]_vars

\* C5: once an authorize has given up (its third exchange attempt failed, by a
\* transport error, an unparseable body or a missing field), its request ended
\* with 503 raised by authorize and fetched nothing after it, and until an
\* exchange succeeds the credential stays expired, so that the next authorize
\* tries again.
C5_FailedRefreshLeavesExpired ==
    /\ refresh_failed =>
          /\ ~CredentialValid(TWITCH_OAUTH_EXPIRE_EPOCH, now)
          /\ \A t \in Threads : th[t].pc \notin {"headers", "data_urlopen"}
    /\ \A t \in Threads :
          th[t].pc = "done" /\ th[t].ended_in = "authorize" =>
             /\ th[t].status = 503
             /\ refresh_failed
             /\ th[t].body = <<>>
             /\ IF th[t].fn = "userid" THEN th[t].user_json = NoBody
                ELSE th[t].channel_json = NoBody

\* C5's case: the refresh of the listing fetch failed with a token stored by
\* an answer that lacked expires_in
C5_RefreshGaveUp ==
    \E t \in Threads :
        /\ th[t].pc = "done" /\ th[t].ended_in = "authorize"
        /\ th[t].fn = "vods"
        /\ TWITCH_OAUTH_TOKEN = "tokB"

\* C6: a request whose identity lookup got a response with an empty data list
\* (no such channel) ends in 404 raised by get_inner, with no listing lookup.
C6_UnknownChannelIsNotFound ==
    \A t \in Threads :
        th[t].pc = "done" /\ th[t].user_json = Json(<<>>) =>
            th[t].status = 404 /\ th[t].channel_json = NoBody

\* C7: a request for a known channel whose listing has no records ends in 404,
\* never in a feed without entries.
C7_EmptyListingIsNotFound ==
    \A t \in Threads :
        th[t].pc = "done" /\ th[t].channel_json = Json(<<>>) =>
            th[t].status = 404 /\ th[t].body = <<>>

\* a body with no record in it: no bytes, or an empty data list
NoRecord(body) == body.kind = "empty" \/ (body.kind = "json" /\ Len(body.data) = 0)

\* C8: a lookup that found no record stores nothing: the identity and listing
\* caches never hold a body without a record, so that the next lookup of the
\* key asks the upstream again.
C8_NotFoundIsNotCached ==
    /\ \A k \in DOMAIN userid_cache : ~NoRecord(userid_cache[k].val)
    /\ \A k \in DOMAIN vods_cache : ~NoRecord(vods_cache[k].val)

\* the records of a listing that have every field construct_rss reads
Complete(vod) == {"url", "title"} \cup VodFieldsAfterUrl \subseteq DOMAIN vod

\* C10: construct_rss fails fast: a response with a feed has status 200, and
\* then every record of the listing is complete and has its entry (the feed is
\* never built from a part of the listing); a request that met a record
\* lacking a field, or whose resolution failed, ends in an error with no feed.
C10_FeedIsAllOrNothing ==
    \A t \in Threads :
        th[t].pc = "done" =>
            /\ th[t].body # <<>> <=> th[t].status = 200
            /\ th[t].status # 200 => ~th[t].gzip
            /\ th[t].status = 200 =>
                  LET vods == th[t].channel_json.data
                      feed == th[t].body[1] IN
                  /\ \A j \in 1..Len(vods) : Complete(vods[j])
                  /\ Len(feed.entries) = Len(vods)
                  /\ \A j \in 1..Len(vods) :
                        feed.entries[Len(vods) + 1 - j].guid = vods[j].id
            /\ th[t].ended_in = "get_audiostream_url" => th[t].status = 500
            /\ th[t].ended_in = "construct_rss" => th[t].status = 404

\* C10's case: the second record lacks a field after the first got its entry,
\* and the request ends without a feed
C10_PartialFeedDropped ==
    \E t \in Threads :
        /\ th[t].pc = "done" /\ th[t].ended_in = "construct_rss"
        /\ th[t].i = 2 /\ Len(th[t].entries) = 1
        /\ th[t].body = <<>>

\* the lookup of thread t in cache `fn`: the step of the @cached wrapper
LookedUp(t, fn) == th[t].pc = fn /\ th'[t] # th[t]

\* the lookup of key k at this step, the key's last store being at time
\* `stored` of value `val`: within ttl seconds of the store the value comes
\* back and the function is not called; after them the function is called
FromStore(t, last, k, ttl, got, called) ==
    IF k \notin DOMAIN last THEN th'[t].pc = called
    ELSE /\ now < last[k].stored + Sec(ttl) =>
               th'[t].pc # called /\ got = last[k].val
         /\ now > last[k].stored + Sec(ttl) => th'[t].pc = called

FromLookup(t, last, k, ttl, got, called) ==
    k \in DOMAIN last /\ now < last[k].at + Sec(ttl) =>
        th'[t].pc # called /\ got = last[k].val

Thumbnail512x288(template) ==
    [k \in DOMAIN template |->
        IF template[k] = "%{width}" THEN "512"
        ELSE IF template[k] = "%{height}" THEN "288"
        ELSE template[k]]

\* the entry the claim describes for record r, its page resolved to audio
EntryOf(r, audio) ==
    [ guid |-> r.id,
      title |-> r.title,
      link |-> r.url,
      enclosure |-> [url |-> audio, type |-> "audio/mpeg"],
      description |-> [href |-> r.url, img |-> Thumbnail512x288(r.thumbnail_url),
                       text |-> r.description],
      pubDate |-> r.created_at ]

\* C11: the feed of a successful request has one entry per record of the
\* listing, none left out and none twice, and the entry of record r has guid
\* r.id, title r.title, link r.url, an audio/mpeg enclosure with the URL
\* resolved for r.url and a description whose image is r.thumbnail_url with
\* %{width} = 512 and %{height} = 288; the feed is a function of the identity,
\* the listing and the resolved URLs.
C11_OneEntryPerRecord ==
    \A t \in Threads :
        th[t].pc = "done" /\ th[t].status = 200 =>
            LET vods == th[t].channel_json.data
                user == th[t].user_json.data[1]
                feed == th[t].body[1]
                n == Len(vods) IN
            /\ feed.title = user.display_name
            /\ feed.image = user.profile_image_url
            /\ Len(feed.entries) = n
            /\ \A j \in 1..n :
                  feed.entries[n + 1 - j] = EntryOf(vods[j], last_audio[vods[j].url].val)

\* C11's case: a feed of two records, the second being recorded live, with
\* different audio URLs
C11_FeedOfTwoRecords ==
    \E t \in Threads :
        /\ th[t].pc = "done" /\ th[t].status = 200
        /\ th[t].channel_json = Json(<<Vod1, Vod2>>)
        /\ Len(th[t].body[1].entries) = 2
        /\ th[t].body[1].entries[1].guid = "v2"
        /\ th[t].body[1].entries[1].enclosure.url # th[t].body[1].entries[2].enclosure.url


\* thread t takes a step
StepOf(t) == th'[t] # th[t]

\* cache' is cache with key k written and, at most, other entries dropped
WrittenAt(cache, k) ==
    /\ k \in DOMAIN cache'
    /\ \A j \in DOMAIN cache' : j # k => j \in DOMAIN cache /\ cache'[j] = cache[j]

\* C12: a request goes through identity lookup, listing lookup, audio
\* resolution per record and feed build in this order: the listing lookup
\* starts only from an identity lookup that gave an identity, and its key is
\* that identity's id; the resolver runs only for a request that holds a
\* decoded listing, on the page URL of the record the loop is at.
C12_FixedOrderOfSteps ==
    [][\A t \in Threads :
          StepOf(t) =>
            /\ th'[t].pc = "fetch_vods" =>
                  /\ th[t].fn # "vods" /\ th[t].channel_json = NoBody
                  /\ th[t].pc = "fetch_userid" \/ (th[t].pc = "data_urlopen" /\ th[t].fn = "userid")
            /\ th'[t].pc = "fetch_vods" \/ th'[t].fn = "vods" \/ th'[t].channel_json # NoBody =>
                  /\ th'[t].user_json.kind = "json"
                  /\ Len(th'[t].user_json.data) >= 1
                  /\ th'[t].user_json.data[1].id # ""
            /\ vods_cache' # vods_cache =>
                  /\ th[t].pc = "data_urlopen" /\ th[t].fn = "vods"
                  /\ WrittenAt(vods_cache, th[t].user_json.data[1].id)
                  /\ th'[t].channel_json = vods_cache'[th[t].user_json.data[1].id].val
            /\ th'[t].pc \in {"construct_rss", "streamlink"} \/ th'[t].entries # <<>> =>
                  /\ th'[t].channel_json.kind = "json"
                  /\ th'[t].i >= 1
                  /\ th'[t].pc \in {"construct_rss", "streamlink"} =>
                        th'[t].i <= Len(th'[t].channel_json.data)
                  /\ Len(th'[t].entries) < th'[t].i
            /\ th'[t].pc = "streamlink" => th[t].pc = "construct_rss" /\ th'[t].i = th[t].i
            /\ audio_cache' # audio_cache =>
                  /\ th[t].pc = "streamlink"
                  /\ WrittenAt(audio_cache, th[t].channel_json.data[th[t].i].url)
            /\ th'[t].body # <<>> =>
                  th[t].pc = "respond" /\ th[t].i = Len(th[t].channel_json.data) + 1]_vars

\* C12's case: the resolver runs for the second record of the listing
C12_ResolvingSecondRecord ==
    \E t \in Threads :
        /\ th[t].pc = "streamlink" /\ th[t].i = 2
        /\ th[t].channel_json = Json(<<Vod1, Vod2>>)
        /\ "u1" \in DOMAIN vods_cache


\* C14: a data fetch is sent only by a fetch_json whose authorize returned
\* normally (the stored expiry had not passed, or its own exchange stored
\* one), with the token that was stored when its headers were built, which is
\* never the initial empty token; and whenever the stored expiry is not 0 the
\* stored token is not empty.  This holds for two threads in any interleaving.
C14_DataFetchAfterEnsure ==
    [][/\ TWITCH_OAUTH_EXPIRE_EPOCH' # 0 => TWITCH_OAUTH_TOKEN' # ""
       /\ \A t \in Threads :
             StepOf(t) =>
               /\ th'[t].pc = "headers" =>
                     \/ th[t].pc = "authorize" /\ TWITCH_OAUTH_EXPIRE_EPOCH >= Round(now)
                     \/ th[t].pc = "token_expire"
               /\ th'[t].pc = "data_urlopen" /\ th[t].pc # "data_urlopen" =>
                     /\ th[t].pc = "headers"
                     /\ th'[t].bearer = TWITCH_OAUTH_TOKEN
               /\ th[t].pc = "data_urlopen" => th[t].bearer # ""]_vars

\* C14's case: one thread sends its data fetch while the other is in its
\* token exchange and has stored another token since
C14_FetchDuringExchange ==
    /\ th["w1"].pc = "data_urlopen"
    /\ th["w2"].pc = "token_expire"
    /\ th["w1"].bearer # TWITCH_OAUTH_TOKEN


\* C15: the credential is valid exactly while now < expiresAt, expiresAt being
\* the time of the last successful exchange plus its expires_in: authorize
\* returns at once when now < expiresAt and exchanges a token when
\* now >= expiresAt, also when now = expiresAt.
C15_ValidStrictlyBeforeExpiry ==
    [][\A t \in Threads :
          Ensured(t) /\ exchanged # <<>> =>
             LET expiresAt == exchanged[1].at + Sec(exchanged[1].r.expires_in) IN
             IF now < expiresAt THEN th'[t].pc = "headers"
             ELSE th'[t].pc = "token_urlopen"]_vars

\* C16: a body that is not JSON is a failed attempt of the data fetch: it is
\* never what fetch_userid or fetch_vods returns to get_inner and never in
\* their caches.
C16_UnparseableBodyIsAFailure ==
    /\ \A k \in DOMAIN userid_cache : userid_cache[k].val.kind # "garbage"
    /\ \A k \in DOMAIN vods_cache : vods_cache[k].val.kind # "garbage"
    /\ \A t \in Threads :
          th[t].user_json.kind # "garbage" /\ th[t].channel_json.kind # "garbage"

\* C17: when no thread is inside a token exchange, the stored token is the
\* access_token of the response the stored expiry was computed from.
C17_TokenAndExpiryOfOneExchange ==
    (/\ exchanged # <<>>
     /\ \A t \in Threads : th[t].pc \notin {"token_urlopen", "token_expire"})
    => TWITCH_OAUTH_TOKEN = exchanged[1].r.access_token

\* C18: the stored token changes only in an exchange attempt that succeeds,
\* the one whose expiry is stored next, and the stored expiry changes only
\* then: a failed attempt leaves both as they were.
C18_CredentialChangesOnSuccessOnly ==
    [][/\ TWITCH_OAUTH_TOKEN' # TWITCH_OAUTH_TOKEN =>
             \E t \in Threads : th[t].pc = "token_urlopen" /\ th'[t].pc = "token_expire"
       /\ TWITCH_OAUTH_EXPIRE_EPOCH' # TWITCH_OAUTH_EXPIRE_EPOCH =>
             \E t \in Threads : th[t].pc = "token_expire" /\ th'[t].pc = "headers"
       /\ \A t \in Threads :
             th[t].pc = "token_urlopen" /\ StepOf(t) /\ th'[t].pc # "token_expire" =>
                /\ TWITCH_OAUTH_TOKEN' = TWITCH_OAUTH_TOKEN
                /\ TWITCH_OAUTH_EXPIRE_EPOCH' = TWITCH_OAUTH_EXPIRE_EPOCH]_vars


\* the same request, made through the other route
OtherRoute(rec) == [rec EXCEPT !.add_live = ~rec.add_live]

\* C19: add_live has no effect.  Whatever point a request has come to, the
\* request made through the other route is at the same point with the same
\* data, and its next step (after the identity lookup, after the listing
\* lookup, after a failed attempt, after a resolution, at the end) gives the
\* same result, uses the same cache keys and builds the same feed, also for
\* a listing with a record that has status = recording.
C19_AddLiveHasNoEffect ==
    \A t \in Busy :
        LET rec == th[t]
            twin == OtherRoute(th[t]) IN
        /\ \A where \in {"authorize", "fetch_json"} :
              AfterFailure(twin, where) = OtherRoute(AfterFailure(rec, where))
        /\ \A code \in {200, 404, 500, 503} :
              Done(twin, code, "get_inner") = OtherRoute(Done(rec, code, "get_inner"))
        /\ rec.user_json # NoBody =>
              AfterUserid(twin) = OtherRoute(AfterUserid(rec))
        /\ rec.pc = "fetch_vods" => ChannelId(twin) = ChannelId(rec)
        /\ rec.channel_json # NoBody =>
              AfterVods(twin) = OtherRoute(AfterVods(rec))
        /\ rec.pc \in {"construct_rss", "streamlink"}
             /\ {"url", "title"} \subseteq DOMAIN rec.channel_json.data[rec.i] =>
              \A audio \in StreamUrls :
                  AfterAudio(twin, audio) = OtherRoute(AfterAudio(rec, audio))
        /\ rec.pc = "respond" => Feed(twin) = Feed(rec)
        /\ rec.pc = "done" /\ rec.status = 200 =>
              Len(rec.body[1].entries) = Len(rec.channel_json.data)

\* C19's case: a request through /vodonly gets the feed of a listing whose
\* second record is being recorded, with an entry for it
C19_VodonlyWithLiveRecord ==
    \E t \in Threads :
        /\ th[t].pc = "done" /\ th[t].status = 200 /\ ~th[t].add_live
        /\ th[t].channel_json = Json(<<Vod1, Vod2>>)
        /\ Vod2.status = "recording"
        /\ th[t].body[1].entries[1].guid = Vod2.id


\* how far a request has come: one more for each step it can take, the
\* identity lookup before the listing lookup before the records in order
Stage(rec) ==
    LET off == IF rec.fn = "vods" THEN 10 ELSE 0 IN
    CASE rec.pc = "idle" -> 0
      [] rec.pc = "fetch_userid" -> 1
      [] rec.pc = "fetch_vods" -> 11
      [] rec.pc = "authorize" -> off + 2
      [] rec.pc = "token_urlopen" -> off + 3 + rec.retries
      [] rec.pc = "token_expire" -> off + 6
      [] rec.pc = "headers" -> off + 7
      [] rec.pc = "data_urlopen" -> off + 8 + rec.retries
      [] rec.pc = "construct_rss" -> 21 + 2 * (rec.i - 1)
      [] rec.pc = "streamlink" -> 22 + 2 * (rec.i - 1)
      [] rec.pc = "respond" -> 21 + 2 * (rec.i - 1)
      [] OTHER -> 0

\* C20: every request that is started ends in a response, and a request never
\* goes back: each of its steps ends it or takes it further in the order
\* identity lookup (one authorize, at most 3 exchange attempts, at most 3
\* data attempts), listing lookup (the same), one resolution per record of the
\* listing, response; nothing is tried again above the two fetch loops.
C20_EveryRequestEnds ==
    /\ [][\A t \in Threads :
            StepOf(t) /\ th[t].pc \notin {"idle", "done"} =>
               /\ th'[t].pc = "done" \/ Stage(th'[t]) > Stage(th[t])
               /\ th[t].pc \in {"token_urlopen", "data_urlopen"} =>
                     th[t].retries < MAX_RETRIES
               /\ th[t].pc \in {"construct_rss", "streamlink", "respond"} =>
                     Stage(th[t]) <= 21 + 2 * Len(th[t].channel_json.data)]_vars
    /\ \A t \in Threads : (th[t].pc \notin {"idle", "done"}) ~> (th[t].pc = "done")

\* C20's case: a request on the third attempt of its listing fetch, the last
\* step of the fetch layer it can be at
C20_LastAttempt ==
    \E t \in Threads :
        /\ th[t].pc = "data_urlopen" /\ th[t].fn = "vods"
        /\ th[t].retries = MAX_RETRIES - 1
        /\ Stage(th[t]) = 20

====
